---- MODULE Spec2Model ----
(***************************************************************************)
(* Model of neo4j_manager: the Neo4jConnection facade (connection.py), the *)
(* HealthChecker (health_check.py) and the BackupManager (backup.py) built *)
(* on it.                                                                  *)
(*                                                                         *)
(* One facade is modelled together with the part of the outside world it   *)
(* talks to: the driver handles GraphDatabase.driver() has handed out, the *)
(* server (reachable or not, accepting the credentials or not) and the     *)
(* graph the server stores.  Every public method is one action; the calls  *)
(* a method makes are operators on the facade's state, so that an action   *)
(* is the whole call.  `last` records what the most recent call did.       *)
(***************************************************************************)
EXTENDS Integers, Sequences, FiniteSets, TLC

\* ---------------------------------------------------------------- bounds
\* Number of driver handles GraphDatabase.driver() may create in a run.
MaxHandles == 2
\* Largest number of nodes the graph may hold.
MaxNodes == 2
\* Largest number of clauses in the text of one execute_write call.
MaxStmts == 2
\* Largest timeout and interval wait_for_ready is called with (seconds).
MaxTimeout == 2
MaxInterval == 2
\* Latest time at which an entry of the backup directory is written.
MaxMtime == 1

\* ------------------------------------------------------------- constants
\* self._driver = None
None == 0

\* The two error kinds connect() names, and the error a statement the
\* server rejects is reported with.
ServiceUnavailable == "ServiceUnavailable"
AuthError == "AuthError"
CypherError == "CypherSyntaxError"
\* raised by import_from_graphml for a path that does not exist
FileNotFoundError == "FileNotFoundError"

\* Clauses a statement text is made of: CREATE (n), CREATE (a)-[:R]->(b),
\* a clause the server rejects, the three reads the library issues, and
\* MATCH (n) DETACH DELETE n ("delete_all").
WriteClauses == {"node", "pair", "bad"}
ReadClauses == {"return1", "count_nodes", "count_rels", "bad"}

RECURSIVE SeqsUpTo(_, _)
SeqsUpTo(S, n) ==
    IF n = 0 THEN {<<>>}
    ELSE LET shorter == SeqsUpTo(S, n - 1)
         IN shorter \cup {Append(s, c) : s \in {t \in shorter : Len(t) = n - 1}, c \in S}

WriteTexts == SeqsUpTo(WriteClauses, MaxStmts) \ {<<>>}
ReadTexts == {<<c>> : c \in ReadClauses}

\* The statements the library itself issues are written by what the server
\* does with them.  CALL apoc.import.graphml(...): the file holds one node
\* ("import_node") or two nodes and a relationship ("import_pair"), the
\* procedure yields no row ("norow"), or the server rejects the call
\* ("bad": the plugin is not installed, the file is not in the server's
\* import directory).
ImportAnswers == {"import_node", "import_pair", "norow", "bad"}
\* CALL apoc.help('version'): a row counting one procedure or none, no row, or
\* a rejected call.
ApocAnswers == {"apoc_count1", "apoc_count0", "norow", "bad"}
\* CALL dbms.components(): a row with the version, or no row.
VersionAnswers == {"version_row", "norow"}
\* CALL db.labels(): a row with the collected labels, or no row.
LabelsAnswers == {"labels", "norow"}

\* CALL apoc.export.graphml.all(...): a row with the file and the counts,
\* no row, or a rejected call.
ExportAnswers == {"export_row", "norow", "bad"}

\* A file name is the sequence of its parts, the extension ".graphml" being
\* one part.  The names export_to_graphml is called with; <<>> stands for
\* filename=None.
GraphmlExt == ".graphml"
ExportNames == {<<>>, <<"backup">>, <<"backup", GraphmlExt>>}

\* The paths import_from_graphml is called with.
Paths == {<<"backup", GraphmlExt>>, <<"old", GraphmlExt>>}

\* The names an entry of the backup directory may have.
DirNames == Paths \cup {<<"old", GraphmlExt, ".bak">>, <<"notes", ".txt">>}

VARIABLES
    conn,       \* the facade and the handles it has created
    reachable,  \* the server answers
    credsValid, \* the server accepts the facade's username/password
    graph,      \* what the server stores: [nodes, rels]
    scope,      \* None outside a with-block, else the handle stored at entry
    made,       \* nodes/relationships committed by execute_write on an
                \* initially empty graph that nothing else has written
    now,        \* time.time(), in seconds since the last wait_for_ready began
    wait,       \* the wait_for_ready call in progress, if any
    health,     \* the full_health_check call in progress, if any
    files,      \* the entries of the backup directory: name -> st_mtime
    last        \* record of the most recent call

vars == <<conn, reachable, credsValid, graph, scope, made, now, wait,
          health, files, last>>

\* ------------------------------------------------------- the environment
\* What the server answers to a connection attempt or a statement now.
Probe ==
    IF ~reachable THEN ServiceUnavailable
    ELSE IF ~credsValid THEN AuthError
    ELSE "ok"

EmptyGraph == [nodes |-> 0, rels |-> 0]

\* Effect of one clause on the state a transaction works on.
Step(c, g) ==
    CASE c \in {"node", "import_node"} -> [g EXCEPT !.nodes = @ + 1]
      [] c \in {"pair", "import_pair"} ->
            [nodes |-> g.nodes + 2, rels |-> g.rels + 1]
      [] c = "delete_all" -> EmptyGraph
      [] OTHER -> g

\* The labels in use: every node the model creates carries the one label.
Labels(g) == IF g.nodes > 0 THEN <<"Node">> ELSE <<>>

\* Rows the final clause of a text returns.
Rows(c, g) ==
    CASE c = "count_nodes" -> <<[count |-> g.nodes]>>
      [] c = "count_rels" -> <<[count |-> g.rels]>>
      [] c = "return1" -> <<[num |-> 1]>>
      [] c = "import_node" -> <<[nodes |-> 1, relationships |-> 0, time |-> 1]>>
      [] c = "import_pair" -> <<[nodes |-> 2, relationships |-> 1, time |-> 1]>>
      [] c = "export_row" ->
            <<[file |-> "file", nodes |-> g.nodes, relationships |-> g.rels,
               time |-> 1]>>
      [] c = "apoc_count1" -> <<[count |-> 1]>>
      [] c = "apoc_count0" -> <<[count |-> 0]>>
      [] c = "version_row" -> <<[version |-> "5.26.0"]>>
      [] c = "labels" -> <<[labels |-> Labels(g)]>>
      [] OTHER -> <<>>

\* tx.run(query): the clauses act in order on the transaction's working
\* state; a rejected clause raises and leaves the work done so far in it.
RECURSIVE RunFrom(_, _, _)
RunFrom(text, i, g) ==
    IF i > Len(text) THEN [err |-> FALSE, g |-> g, rows |-> Rows(text[Len(text)], g)]
    ELSE IF text[i] = "bad" THEN [err |-> TRUE, g |-> g, rows |-> <<>>]
    ELSE RunFrom(text, i + 1, Step(text[i], g))

\* A transaction that raises keeps the work done before the error (mutant).
TransactionLeaky(text, g) ==
    RunFrom(text, 1, g)

\* A transaction that commits keeps its working state; one that raises is
\* rolled back.
Transaction(text, g) ==
    LET r == RunFrom(text, 1, g)
    IN IF r.err THEN [r EXCEPT !.g = g] ELSE r

\* ------------------------------------------------------------ the facade
\* Result of a call on the facade: the facade afterwards, the graph
\* afterwards, what was raised and where, what was returned, counts of the
\* calls made on the way, the facade methods called in order (trace) and
\* the ones among execute_query and execute_write whose statement changed
\* the graph (mutatedBy).
Result(c, g) ==
    [conn |-> c, graph |-> g, raised |-> "none", failedAt |-> "none",
     rows |-> <<>>, ret |-> None, truth |-> FALSE, connects |-> 0,
     closes |-> 0, verifies |-> 0, used |-> None, trace |-> <<>>,
     mutatedBy |-> {}]

\* connect(): a failure is swallowed and None returned (mutant).
connectSwallows(c, g, p) ==
    LET h == c.created + 1
        c1 == [c EXCEPT !.created = h, !.open = @ \cup {h}, !._driver = h]
    IN IF p = "ok"
       THEN [Result([c1 EXCEPT !.verified = @ \cup {h}], g) EXCEPT
                !.ret = h, !.connects = 1, !.verifies = 1]
       ELSE [Result(c1, g) EXCEPT !.connects = 1, !.verifies = 1]

\* connect(): the handle is stored before verify_connectivity() is called,
\* and both except clauses re-raise.
connect(c, g, p) ==
    LET h == c.created + 1
        c1 == [c EXCEPT !.created = h, !.open = @ \cup {h}, !._driver = h]
    IN IF p = "ok"
       THEN [Result([c1 EXCEPT !.verified = @ \cup {h}], g) EXCEPT
                !.ret = h, !.connects = 1, !.verifies = 1]
       ELSE [Result(c1, g) EXCEPT
                !.raised = p, !.failedAt = "connect",
                !.connects = 1, !.verifies = 1]

\* close(): the handle is closed but stays stored (mutant).
closeKeepsHandle(c, g) ==
    IF c._driver # None
    THEN [Result([c EXCEPT !.open = @ \ {c._driver}], g) EXCEPT !.closes = 1]
    ELSE Result(c, g)

\* close()
close(c, g) ==
    IF c._driver # None
    THEN [Result([c EXCEPT !.open = @ \ {c._driver}, !._driver = None], g)
            EXCEPT !.closes = 1]
    ELSE Result(c, g)

\* driver: connects whether or not a handle is stored (mutant).
driverAlwaysConnects(c, g, p) ==
    connect(c, g, p)

\* driver property
driver(c, g, p) ==
    IF c._driver = None
    THEN connect(c, g, p)
    ELSE [Result(c, g) EXCEPT !.ret = c._driver]

\* execute_query(): a failing statement drops the handle (mutant).
execute_queryDropsHandle(c, g, text, p) ==
    LET d == driver(c, g, p)
        r == Transaction(text, g)
    IN IF d.raised # "none" THEN d
       ELSE IF p # "ok" \/ r.err
       THEN [d EXCEPT !.conn = close(d.conn, g).conn, !.used = d.ret,
                      !.raised = IF p # "ok" THEN p ELSE CypherError,
                      !.failedAt = "run", !.ret = None]
       ELSE [d EXCEPT !.used = d.ret, !.graph = r.g, !.rows = r.rows,
                      !.ret = None]

\* execute_query(): session.run() in an auto-commit transaction.
execute_query(c, g, text, p) ==
    LET d == [driver(c, g, p) EXCEPT !.trace = <<"execute_query">>]
        r == Transaction(text, g)
    IN IF d.raised # "none" THEN d
       ELSE IF p # "ok"
       THEN [d EXCEPT !.used = d.ret, !.raised = p, !.failedAt = "run",
                      !.ret = None]
       ELSE IF r.err
       THEN [d EXCEPT !.used = d.ret, !.raised = CypherError,
                      !.failedAt = "run", !.ret = None]
       ELSE [d EXCEPT !.used = d.ret, !.graph = r.g, !.rows = r.rows,
                      !.ret = None,
                      !.mutatedBy = IF r.g # g THEN {"execute_query"} ELSE {}]

\* execute_write(): session.execute_write(_write_tx)
execute_write(c, g, text, p) ==
    LET d == [driver(c, g, p) EXCEPT !.trace = <<"execute_write">>]
        r == Transaction(text, g)
    IN IF d.raised # "none" THEN d
       ELSE IF p # "ok"
       THEN [d EXCEPT !.used = d.ret, !.raised = p, !.failedAt = "run",
                      !.ret = None]
       ELSE IF r.err
       THEN [d EXCEPT !.used = d.ret, !.graph = r.g, !.raised = CypherError,
                      !.failedAt = "run", !.ret = None,
                      !.mutatedBy = IF r.g # g THEN {"execute_write"} ELSE {}]
       ELSE [d EXCEPT !.used = d.ret, !.graph = r.g, !.rows = r.rows,
                      !.ret = None,
                      !.mutatedBy = IF r.g # g THEN {"execute_write"} ELSE {}]

\* result[0]["count"] if result else 0, read as the number of rows (mutant).
CountOfRowsLen(rows) ==
    Len(rows)

\* result[0]["count"] if result else 0
CountOf(rows) ==
    IF rows # <<>> THEN rows[1].count ELSE 0

\* get_node_count()
get_node_count(c, g, p) ==
    LET q == execute_query(c, g, <<"count_nodes">>, p)
    IN IF q.raised # "none" THEN q ELSE [q EXCEPT !.ret = CountOf(q.rows)]

\* get_relationship_count()
get_relationship_count(c, g, p) ==
    LET q == execute_query(c, g, <<"count_rels">>, p)
    IN IF q.raised # "none" THEN q ELSE [q EXCEPT !.ret = CountOf(q.rows)]

\* clear_database(): a warning is logged and nothing is deleted (mutant).
clear_databaseKeepsData(c, g, p) ==
    LET w == execute_write(c, g, <<"return1">>, p)
    IN [w EXCEPT !.trace = <<"clear_database">> \o @]

\* clear_database(): self.execute_write("MATCH (n) DETACH DELETE n")
clear_database(c, g, p) ==
    LET w == execute_write(c, g, <<"delete_all">>, p)
    IN [w EXCEPT !.trace = <<"clear_database">> \o @]

\* __enter__(): connect(), then return self.
enter(c, g, p) ==
    connect(c, g, p)

\* __exit__(exc_type, exc_val, exc_tb): close() and return None, so that an
\* exception raised in the body (exc) goes on to the caller of the block.
exit(c, g, exc) ==
    [close(c, g) EXCEPT !.raised = exc,
                        !.failedAt = IF exc = "none" THEN "none" ELSE "body"]

\* check_connectivity(): every error is taken for "not reachable" (mutant).
check_connectivityCatchesAll(c, g, p) ==
    LET d == driver(c, g, p)
    IN IF d.raised # "none"
       THEN [d EXCEPT !.raised = "none", !.ret = None]
       ELSE IF p = "ok"
       THEN [d EXCEPT !.conn.verified = @ \cup {d.ret}, !.used = d.ret,
                      !.verifies = @ + 1, !.truth = TRUE, !.ret = None]
       ELSE [d EXCEPT !.used = d.ret, !.verifies = @ + 1, !.ret = None]

\* check_connectivity(): self.connection.driver.verify_connectivity() in a
\* try block whose only except clause is ServiceUnavailable.
check_connectivity(c, g, p) ==
    LET d == driver(c, g, p)
    IN IF d.raised = ServiceUnavailable
       THEN [d EXCEPT !.raised = "none", !.ret = None]
       ELSE IF d.raised # "none" THEN d
       ELSE IF p = "ok"
       THEN [d EXCEPT !.conn.verified = @ \cup {d.ret}, !.used = d.ret,
                      !.verifies = @ + 1, !.truth = TRUE, !.ret = None]
       ELSE IF p = ServiceUnavailable
       THEN [d EXCEPT !.used = d.ret, !.verifies = @ + 1, !.ret = None]
       ELSE [d EXCEPT !.used = d.ret, !.verifies = @ + 1, !.ret = None,
                      !.raised = p, !.failedAt = "verify"]

\* ------------------------------------------------------ the backup helper
\* Call b made after call a inside one method: b's result, with a's calls
\* counted in.
Then(a, b) ==
    [b EXCEPT !.trace = a.trace \o @, !.mutatedBy = a.mutatedBy \cup @,
              !.connects = a.connects + @, !.closes = a.closes + @,
              !.verifies = a.verifies + @]

\* The path is taken to exist without looking (mutant).
existsAlways(fs, path) ==
    TRUE

\* os.path.exists(filepath)
exists(fs, path) ==
    path \in DOMAIN fs

\* The database is cleared whatever the flag says (mutant).
ClearsFirstAlways(clear) ==
    TRUE

\* if clear_database:
ClearsFirst(clear) ==
    clear

\* The first row is returned with the columns it came with (mutant).
ImportStatsKeepsColumns(rows) ==
    IF rows # <<>>
    THEN [nodes |-> rows[1].nodes, relationships |-> rows[1].relationships,
          time |-> rows[1].time]
    ELSE [nodes |-> 0, relationships |-> 0, time_ms |-> 0]

\* stats = {"nodes": result[0]["nodes"], ...} if result, else the zeros.
ImportStats(rows) ==
    IF rows # <<>>
    THEN [nodes |-> rows[1].nodes, relationships |-> rows[1].relationships,
          time_ms |-> rows[1].time]
    ELSE [nodes |-> 0, relationships |-> 0, time_ms |-> 0]

\* The error is logged and the call returns (mutant).
BackupExceptSwallows(e) ==
    "none"

\* except Exception as e: logger.error(...); raise
BackupExcept(e) ==
    e

\* The failed import is undone together with the clearing before it
\* (mutant).
ImportFailedRollsBack(q, g0) ==
    [q EXCEPT !.graph = g0, !.raised = BackupExcept(@),
              !.failedAt = "import"]

\* The import query raised: what clear_database() committed stays.
ImportFailed(q, g0) ==
    [q EXCEPT !.raised = BackupExcept(@), !.failedAt = "import"]

\* import_from_graphml(filepath, clear_database): the path is tested first;
\* clear_database() is called outside the try block; the import statement
\* goes through execute_query, and its error is logged and re-raised.
\* fs is the backup directory, answer what the server does with the import
\* statement.
import_from_graphml(c, g, fs, path, clear, p, answer) ==
    IF ~exists(fs, path)
    THEN [Result(c, g) EXCEPT !.raised = FileNotFoundError,
                              !.failedAt = "exists"]
    ELSE LET cl == IF ClearsFirst(clear) THEN clear_database(c, g, p)
                   ELSE Result(c, g)
             q == Then(cl, execute_query(cl.conn, cl.graph, <<answer>>, p))
         IN IF cl.raised # "none" THEN [cl EXCEPT !.failedAt = "clear"]
            ELSE IF q.raised # "none" THEN ImportFailed(q, g)
            ELSE [q EXCEPT !.ret = ImportStats(q.rows)]

\* create_backup_filename(): f"{prefix}_{timestamp}.graphml"
create_backup_filename == <<"neo4j_backup", "timestamp", GraphmlExt>>

NotGraphmlExt(part) == part # GraphmlExt

\* filename.replace(".graphml", "")
filename_base(filename) == SelectSeq(filename, NotGraphmlExt)

\* export_to_graphml(filename): the export statement goes through
\* execute_query; the path returned is the backup directory joined with
\* the base name and the extension; an error is logged and re-raised.
export_to_graphml(c, g, filename, p, answer) ==
    LET name == IF filename = <<>> THEN create_backup_filename ELSE filename
        q == execute_query(c, g, <<answer>>, p)
    IN IF q.raised # "none"
       THEN [q EXCEPT !.raised = BackupExcept(@), !.failedAt = "export"]
       ELSE [q EXCEPT !.ret = <<"backup_dir">> \o filename_base(name)
                                 \o <<GraphmlExt>>]

\* ------------------------------------------------------ the health report
\* {}
EmptyDict == [k \in {} |-> 0]

\* d[k] = v on a dict
SetKey(d, k, v) ==
    [x \in DOMAIN d \cup {k} |-> IF x = k THEN v ELSE d[x]]

\* del d[k]
DelKey(d, k) ==
    [x \in DOMAIN d \ {k} |-> d[x]]

\* The report full_health_check() starts from.
DefaultReport ==
    [connected |-> FALSE, apoc_available |-> FALSE, version |-> "unknown",
     stats |-> EmptyDict]

\* full_health_check is not running.  While it runs, pc names the step it
\* is about to take, steps lists the checks called so far, returned what
\* each of them returned, calls the facade methods they called, and
\* node_count and relationship_count hold what get_database_stats has read
\* so far.  caller is the method that runs: full_health_check, or
\* get_database_stats called on its own; mutatedBy collects the facade
\* methods that changed the graph on the way.  For get_database_stats
\* called on its own, seen is the set of states the database has been in
\* since the call began and interleaved says that another client has
\* written between two of its reads.
NoHealth ==
    [pc |-> "idle", report |-> DefaultReport, steps |-> <<>>,
     returned |-> EmptyDict, calls |-> <<>>, node_count |-> 0,
     relationship_count |-> 0, caller |-> "none", mutatedBy |-> {},
     seen |-> {}, interleaved |-> FALSE]

\* The key of the report a step's value is stored under.
Field(step) ==
    CASE step = "check_connectivity" -> "connected"
      [] step = "check_apoc_available" -> "apoc_available"
      [] step = "get_version" -> "version"
      [] step = "get_database_stats" -> "stats"

\* ------------------------------------------------------ the backup listing
\* A name matches *.graphml* if ".graphml" occurs in it.
Matches(name) == \E i \in 1..Len(name) : name[i] = GraphmlExt

\* self.backup_dir.glob("*.graphml*"): the matching entries, each once, in
\* whatever order the directory is read.
GlobOrders(fs) ==
    LET M == {n \in DOMAIN fs : Matches(n)}
    IN {s \in [1..Cardinality(M) -> M] :
           \A i, j \in 1..Cardinality(M) : i # j => s[i] # s[j]}

\* The entries are not compared: the list stays as globbed (mutant).
SortKeyNone(fs, name) ==
    0

\* key=lambda p: p.stat().st_mtime
SortKey(fs, name) ==
    fs[name]

\* x put into the sorted list s behind every element whose key is not
\* greater: sorted() is stable.
RECURSIVE InsertSorted(_, _, _)
InsertSorted(x, s, fs) ==
    IF s = <<>> THEN <<x>>
    ELSE IF SortKey(fs, s[Len(s)]) <= SortKey(fs, x) THEN Append(s, x)
    ELSE Append(InsertSorted(x, SubSeq(s, 1, Len(s) - 1), fs), s[Len(s)])

\* sorted(globbed, key=...)
RECURSIVE sorted(_, _)
sorted(globbed, fs) ==
    IF globbed = <<>> THEN <<>>
    ELSE InsertSorted(globbed[Len(globbed)],
                      sorted(SubSeq(globbed, 1, Len(globbed) - 1), fs), fs)

\* list_backups()
list_backups(fs, globbed) ==
    sorted(globbed, fs)

\* get_latest_backup(): backups[-1] if backups else None
get_latest_backup(fs, globbed) ==
    LET backups == list_backups(fs, globbed)
    IN IF backups # <<>> THEN backups[Len(backups)] ELSE None

\* Only an unreachable server is caught (mutant).
CaughtUnreachableOnly ==
    {ServiceUnavailable}

\* except Exception: every error the model raises is an Exception.
Caught ==
    {ServiceUnavailable, AuthError, CypherError, FileNotFoundError}

\* Any row is taken for a plugin that is there (mutant).
ApocTruthAnyRow(rows) ==
    rows # <<>>

\* result[0]["count"] > 0 if result else False
ApocTruth(rows) ==
    IF rows # <<>> THEN rows[1].count > 0 ELSE FALSE

\* check_apoc_available(): the count of the first row, False without a row;
\* any error of the query is logged and False returned.
check_apoc_available(c, g, p, answer) ==
    LET q == execute_query(c, g, <<answer>>, p)
    IN IF q.raised \in Caught THEN [q EXCEPT !.raised = "none"]
       ELSE IF q.raised # "none" THEN q
       ELSE [q EXCEPT !.truth = ApocTruth(q.rows)]

\* The version is read with a statement that leaves a node behind (mutant).
get_versionWrites(c, g, p, answer) ==
    LET q == execute_query(c, g, <<"node">>, p)
    IN IF q.raised # "none" THEN q
       ELSE [q EXCEPT !.ret = "unknown"]

\* get_version(): the version of the first row, "unknown" without a row.
get_version(c, g, p, answer) ==
    LET q == execute_query(c, g, <<answer>>, p)
    IN IF q.raised # "none" THEN q
       ELSE [q EXCEPT !.ret = IF q.rows # <<>> THEN q.rows[1].version
                              ELSE "unknown"]

\* The two counts change places in the record (mutant).
StatsRecordSwapped(node_count, rel_count, labels) ==
    [node_count |-> rel_count, relationship_count |-> node_count,
     labels |-> labels]

\* get_database_stats(): the dict returned.
StatsRecord(node_count, rel_count, labels) ==
    [node_count |-> node_count, relationship_count |-> rel_count,
     labels |-> labels]

\* The steps after connectivity are taken whatever it returned (mutant).
ProceedsAlways(connected) ==
    TRUE

\* if health["connected"]:
Proceeds(connected) ==
    connected

\* The handler starts again from an empty report (mutant).
HealthExceptResets(report, e) ==
    SetKey(DefaultReport, "error", e)

\* except Exception as e: health["error"] = str(e)
HealthExcept(report, e) ==
    SetKey(report, "error", e)

\* ---------------------------------------------------- the call record
\* Number of nodes and relationships the CREATE clauses of a text make.
RECURSIVE Creates(_, _)
Creates(text, kind) ==
    IF text = <<>> THEN 0
    ELSE Creates(Tail(text), kind) +
         (CASE Head(text) = "node" /\ kind = "nodes" -> 1
            [] Head(text) = "pair" /\ kind = "nodes" -> 2
            [] Head(text) = "pair" /\ kind = "rels" -> 1
            [] OTHER -> 0)

HasBad(text) == \E i \in 1..Len(text) : text[i] = "bad"

\* What the call before this one was, as far as a later call depends on it.
AfterTag ==
    IF last.op = "close" THEN "close"
    ELSE IF last.op = "clear_database" /\ last.outcome = "ok" THEN "cleared"
    ELSE IF last.op = "execute_query" /\ last.failedAt = "run" THEN "queryfail"
    ELSE "none"

NoCall ==
    [op |-> "init", outcome |-> "none", failedAt |-> "none", probe |-> "ok",
     pre |-> None, used |-> None, ret |-> None, connects |-> 0, closes |-> 0,
     verifies |-> 0, bad |-> FALSE, dn |-> 0, dr |-> 0, g0 |-> EmptyGraph,
     after |-> "none", afterUsed |-> None, afterCloses |-> 0,
     afterWrote |-> FALSE,
     truth |-> FALSE, entered |-> None, exc |-> "none",
     elapsed |-> 0, sleeps |-> 0, checks |-> 0, timedOut |-> FALSE,
     timeout |-> 0, interval |-> 0, trace |-> <<>>, mutatedBy |-> {},
     report |-> EmptyDict, steps |-> <<>>, exists |-> FALSE,
     clear |-> FALSE, answer |-> "none", dir |-> EmptyDict,
     raisedIn |-> "none", lastCheck |-> "none", seen |-> {},
     interleaved |-> FALSE,
     returned |-> EmptyDict]

\* What the server did with the statement of a call that produced result
\* r: the answer it was drawn to give, if the statement reached it.
Answered(r, answer) ==
    IF "execute_query" \in {r.trace[i] : i \in 1..Len(r.trace)}
          /\ r.failedAt # "connect" /\ Probe = "ok"
    THEN answer ELSE "none"

\* The record of a call `op` that produced result r.
Call(op, r) ==
    [NoCall EXCEPT
        !.op = op, !.outcome = IF r.raised = "none" THEN "ok" ELSE r.raised,
        !.failedAt = r.failedAt, !.probe = Probe, !.pre = conn._driver,
        !.used = r.used, !.ret = r.ret, !.truth = r.truth,
        !.connects = r.connects, !.trace = r.trace,
        !.mutatedBy = r.mutatedBy,
        !.closes = r.closes, !.verifies = r.verifies, !.g0 = graph,
        !.after = AfterTag,
        !.afterUsed = IF AfterTag = "queryfail" THEN last.used ELSE None,
        !.afterCloses = IF AfterTag = "close" THEN last.closes ELSE 0,
        !.afterWrote = AfterTag = "cleared" /\ last.mutatedBy # {}]

\* wait_for_ready is not running.
NoWait ==
    [pc |-> "idle", start_time |-> 0, timeout |-> 0, interval |-> 0,
     sleeps |-> 0, checks |-> 0, calls |-> <<>>, mutatedBy |-> {},
     lastCheck |-> "none"]

\* ---------------------------------------------------------------- Init
Init ==
    /\ conn = [_driver |-> None, created |-> 0, open |-> {}, verified |-> {}]
    /\ reachable \in BOOLEAN
    /\ credsValid \in BOOLEAN
    /\ graph = EmptyGraph
    /\ scope = None
    /\ made = EmptyGraph
    /\ now = 0
    /\ wait = NoWait
    /\ health = NoHealth
    /\ files = EmptyDict
    /\ last = NoCall

\* ------------------------------------------------------------- actions
\* The calls are synchronous: no other call starts while wait_for_ready
\* is polling.
Idle == wait.pc = "idle" /\ health.pc = "idle"

\* A call that may have to connect needs a handle GraphDatabase.driver()
\* can still hand out.
CanConnect == conn._driver = None => conn.created < MaxHandles

\* The server goes down or comes back.
ServerFlip ==
    /\ reachable' = ~reachable
    /\ UNCHANGED <<conn, credsValid, graph, scope, made, now, wait, last,
                   health, files>>

\* The server starts or stops accepting the facade's credentials.
CredsFlip ==
    /\ credsValid' = ~credsValid
    /\ UNCHANGED <<conn, reachable, graph, scope, made, now, wait, last,
                   health, files>>

Connect ==
    /\ Idle
    /\ conn.created < MaxHandles
    /\ LET r == connect(conn, graph, Probe)
       IN /\ conn' = r.conn
          /\ last' = Call("connect", r)
    /\ UNCHANGED <<reachable, credsValid, graph, scope, made, now, wait,
                   health, files>>

Close ==
    /\ Idle
    /\ LET r == close(conn, graph)
       IN /\ conn' = r.conn
          /\ last' = Call("close", r)
    /\ UNCHANGED <<reachable, credsValid, graph, scope, made, now, wait,
                   health, files>>

\* conn.driver read by a caller
Driver ==
    /\ Idle
    /\ CanConnect
    /\ LET r == driver(conn, graph, Probe)
       IN /\ conn' = r.conn
          /\ last' = Call("driver", r)
    /\ UNCHANGED <<reachable, credsValid, graph, scope, made, now, wait,
                   health, files>>

ExecuteQuery ==
    /\ Idle
    /\ CanConnect
    /\ \E text \in ReadTexts :
        LET r == execute_query(conn, graph, text, Probe)
        IN /\ conn' = r.conn
           /\ graph' = r.graph
           /\ last' = [Call("execute_query", r) EXCEPT !.bad = HasBad(text)]
    /\ UNCHANGED <<reachable, credsValid, scope, made, now, wait,
                   health, files>>

ExecuteWrite ==
    /\ Idle
    /\ CanConnect
    /\ \E text \in WriteTexts :
        LET r == execute_write(conn, graph, text, Probe)
        IN /\ graph.nodes + Creates(text, "nodes") <= MaxNodes
           /\ conn' = r.conn
           /\ graph' = r.graph
           /\ made' = IF r.raised = "none"
                      THEN [nodes |-> made.nodes + Creates(text, "nodes"),
                            rels |-> made.rels + Creates(text, "rels")]
                      ELSE made
           /\ last' = [Call("execute_write", r) EXCEPT
                          !.bad = HasBad(text),
                          !.dn = Creates(text, "nodes"),
                          !.dr = Creates(text, "rels")]
    /\ UNCHANGED <<reachable, credsValid, scope, now, wait, health, files>>

GetNodeCount ==
    /\ Idle
    /\ CanConnect
    /\ LET r == get_node_count(conn, graph, Probe)
       IN /\ conn' = r.conn
          /\ graph' = r.graph
          /\ last' = Call("get_node_count", r)
    /\ UNCHANGED <<reachable, credsValid, scope, made, now, wait,
                   health, files>>

GetRelationshipCount ==
    /\ Idle
    /\ CanConnect
    /\ LET r == get_relationship_count(conn, graph, Probe)
       IN /\ conn' = r.conn
          /\ graph' = r.graph
          /\ last' = Call("get_relationship_count", r)
    /\ UNCHANGED <<reachable, credsValid, scope, made, now, wait,
                   health, files>>

\* clear_database(); the graph is empty again, so the creations counted in
\* `made` start over.
ClearDatabase ==
    /\ Idle
    /\ CanConnect
    /\ LET r == clear_database(conn, graph, Probe)
       IN /\ conn' = r.conn
          /\ graph' = r.graph
          /\ made' = IF r.raised = "none" THEN EmptyGraph ELSE made
          /\ last' = Call("clear_database", r)
    /\ UNCHANGED <<reachable, credsValid, scope, now, wait, health, files>>

\* with conn as c: the block is entered only if __enter__ returns.
EnterScope ==
    /\ Idle
    /\ scope = None
    /\ conn.created < MaxHandles
    /\ LET r == enter(conn, graph, Probe)
       IN /\ conn' = r.conn
          /\ scope' = IF r.raised = "none" THEN r.ret ELSE None
          /\ last' = Call("__enter__", r)
    /\ UNCHANGED <<reachable, credsValid, graph, made, now, wait,
                   health, files>>

\* The body of the with-block ends, by returning or by raising; the calls
\* the body makes on the facade are the other actions, taken in between.
ExitScope ==
    /\ Idle
    /\ scope # None
    /\ \E exc \in {"none", "BodyError"} :
        LET r == exit(conn, graph, exc)
        IN /\ conn' = r.conn
           /\ last' = [Call("__exit__", r) EXCEPT !.entered = scope, !.exc = exc]
    /\ scope' = None
    /\ UNCHANGED <<reachable, credsValid, graph, made, now, wait,
                   health, files>>

CheckConnectivity ==
    /\ Idle
    /\ CanConnect
    /\ LET r == check_connectivity(conn, graph, Probe)
       IN /\ conn' = r.conn
          /\ graph' = r.graph
          /\ last' = Call("check_connectivity", r)
    /\ UNCHANGED <<reachable, credsValid, scope, made, now, wait,
                   health, files>>

\* if in place of while: the condition holds at most once (mutant).
WhileConditionOnce(elapsed, timeout) ==
    elapsed = 0 /\ elapsed < timeout

\* while time.time() - start_time < timeout
WhileCondition(elapsed, timeout) ==
    elapsed < timeout

\* Each sleep is longer than the one before (mutant).
SleepForBackoff(interval, sleeps) ==
    interval * (sleeps + 1)

\* time.sleep(interval), as the sleeps-th sleep of the call has been taken.
SleepFor(interval, sleeps) ==
    interval

\* wait_for_ready(timeout, interval): start_time = time.time()
WaitStart ==
    /\ Idle
    /\ CanConnect
    /\ \E T \in 0..MaxTimeout, I \in 1..MaxInterval :
        wait' = [NoWait EXCEPT !.pc = "loop", !.start_time = now,
                               !.timeout = T, !.interval = I]
    /\ last' = Call("polling", Result(conn, graph))
    /\ UNCHANGED <<conn, reachable, credsValid, graph, scope, made, now,
                   health, files>>

\* One evaluation of the while condition and, if it holds, one pass through
\* the loop body.  The clock is read relative to the start of the call: it
\* is set back when the call returns, as only differences are ever read.
WaitIter ==
    /\ wait.pc = "loop"
    /\ IF WhileCondition(now - wait.start_time, wait.timeout)
       THEN LET r == check_connectivity(conn, graph, Probe)
                done == [Call("wait_for_ready", r) EXCEPT
                            !.timeout = wait.timeout,
                            !.interval = wait.interval,
                            !.elapsed = now - wait.start_time,
                            !.sleeps = wait.sleeps,
                            !.checks = wait.checks + 1,
                            !.lastCheck = IF r.raised # "none" THEN "raised"
                                          ELSE IF r.truth THEN "true"
                                          ELSE "false",
                            !.trace = wait.calls \o r.trace,
                            !.mutatedBy = wait.mutatedBy \cup r.mutatedBy]
            IN /\ conn' = r.conn
               /\ graph' = r.graph
               /\ IF r.raised # "none" \/ r.truth
                  THEN /\ last' = done
                       /\ wait' = NoWait
                       /\ now' = 0
                  ELSE /\ wait' = [wait EXCEPT
                                     !.sleeps = @ + 1, !.checks = @ + 1,
                                     !.lastCheck = "false",
                                     !.calls = @ \o r.trace,
                                     !.mutatedBy = @ \cup r.mutatedBy]
                       /\ now' = now + SleepFor(wait.interval, wait.sleeps)
                       /\ UNCHANGED last
       ELSE /\ last' = [Call("wait_for_ready", Result(conn, graph)) EXCEPT
                           !.timeout = wait.timeout,
                           !.interval = wait.interval,
                           !.elapsed = now - wait.start_time,
                           !.sleeps = wait.sleeps,
                           !.checks = wait.checks,
                           !.lastCheck = wait.lastCheck,
                           !.trace = wait.calls,
                           !.mutatedBy = wait.mutatedBy,
                           !.timedOut = TRUE]
            /\ wait' = NoWait
            /\ now' = 0
            /\ UNCHANGED <<conn, graph>>
    /\ UNCHANGED <<reachable, credsValid, scope, made, health, files>>

Next ==
    \/ ServerFlip
    \/ CredsFlip
    \/ Connect
    \/ Close
    \/ Driver
    \/ ExecuteQuery
    \/ ExecuteWrite
    \/ GetNodeCount
    \/ GetRelationshipCount
    \/ ClearDatabase
    \/ EnterScope
    \/ ExitScope
    \/ CheckConnectivity

\* The facade and the connectivity check, one call at a time.
Spec == Init /\ [][Next]_vars

\* --------------------------------------------------- waiting for the server
WaitNext ==
    \/ ServerFlip
    \/ CredsFlip
    \/ Close
    \/ CheckConnectivity
    \/ WaitStart
    \/ WaitIter

\* wait_for_ready on a facade that is also closed and checked, and a server
\* that may come and go between two iterations of the loop.
WaitSpec == Init /\ [][WaitNext]_vars

\* ------------------------------------------- waiting for a server that is down
\* The server is down from the start and stays down: every connectivity
\* check meets ServiceUnavailable.
InitDown == Init /\ ~reachable

WaitDownNext ==
    \/ CredsFlip
    \/ Close
    \/ CheckConnectivity
    \/ WaitStart
    \/ WaitIter

\* wait_for_ready runs on: the loop has no blocking call but sleep(), which
\* returns, so an iteration that can be taken is taken.
WaitDownSpec == InitDown /\ [][WaitDownNext]_vars /\ WF_vars(WaitIter)

\* ---------------------------------------------- the health checker's calls
\* full_health_check(): health = {...defaults...}
HealthStart ==
    /\ Idle
    /\ CanConnect
    /\ health' = [NoHealth EXCEPT !.pc = "check_connectivity",
                                   !.caller = "full_health_check"]
    /\ last' = Call("checking", Result(conn, graph))
    /\ UNCHANGED <<conn, reachable, credsValid, graph, scope, made, now, wait,
                   files>>

\* The record of a full_health_check() that ends in step `step` with result
\* r of that step: an error the try block catches is stored in the report
\* and the report returned, any other error goes on to the caller.
HealthReturn(step, r, report) ==
    LET caught == r.raised \in Caught
        out == IF r.raised = "none" THEN report
               ELSE HealthExcept(report, r.raised)
    IN [Call("full_health_check",
             [r EXCEPT !.raised = IF caught THEN "none" ELSE @]) EXCEPT
           !.report = IF r.raised = "none" \/ caught THEN out ELSE EmptyDict,
           !.steps = Append(health.steps, step),
           !.trace = health.calls \o r.trace,
           !.mutatedBy = health.mutatedBy \cup r.mutatedBy,
           !.returned = health.returned,
           !.exc = r.raised,
           !.raisedIn = IF r.raised = "none" THEN "none" ELSE step]

\* health[key] = value after step `step` with result r returned value.
HealthStore(step, value) ==
    [health EXCEPT !.report = [@ EXCEPT ![Field(step)] = value],
                   !.returned = SetKey(@, step, value)]

\* The call in progress after that, about to take step pc.
HealthGoesOn(step, r, pc, value) ==
    [HealthStore(step, value) EXCEPT
        !.pc = pc, !.steps = Append(@, step), !.calls = @ \o r.trace,
        !.mutatedBy = @ \cup r.mutatedBy]

\* health["connected"] = self.check_connectivity()
HealthConnectivity ==
    /\ health.pc = "check_connectivity"
    /\ LET r == check_connectivity(conn, graph, Probe)
           stored == HealthStore("check_connectivity", r.truth)
       IN /\ conn' = r.conn
          /\ graph' = r.graph
          /\ IF r.raised # "none"
             THEN /\ last' = HealthReturn("check_connectivity", r, health.report)
                  /\ health' = NoHealth
             ELSE IF ~Proceeds(r.truth)
             THEN /\ last' = [HealthReturn("check_connectivity", r,
                                           stored.report) EXCEPT
                                 !.returned = stored.returned]
                  /\ health' = NoHealth
             ELSE /\ health' = HealthGoesOn("check_connectivity", r,
                                            "check_apoc_available", r.truth)
                  /\ UNCHANGED last
    /\ UNCHANGED <<reachable, credsValid, scope, made, now, wait, files>>

\* health["apoc_available"] = self.check_apoc_available()
HealthApoc ==
    /\ health.pc = "check_apoc_available"
    /\ \E answer \in ApocAnswers :
        LET r == check_apoc_available(conn, graph, Probe, answer)
        IN /\ conn' = r.conn
           /\ graph' = r.graph
           /\ IF r.raised # "none"
              THEN /\ last' = HealthReturn("check_apoc_available", r,
                                           health.report)
                   /\ health' = NoHealth
              ELSE /\ health' = HealthGoesOn("check_apoc_available", r,
                                             "get_version", r.truth)
                   /\ UNCHANGED last
    /\ UNCHANGED <<reachable, credsValid, scope, made, now, wait, files>>

\* health["version"] = self.get_version()
HealthVersion ==
    /\ health.pc = "get_version"
    /\ \E answer \in VersionAnswers :
        LET r == get_version(conn, graph, Probe, answer)
        IN /\ conn' = r.conn
           /\ graph' = r.graph
           /\ IF r.raised # "none"
              THEN /\ last' = HealthReturn("get_version", r, health.report)
                   /\ health' = NoHealth
              ELSE /\ health' = HealthGoesOn("get_version", r,
                                             "get_database_stats", r.ret)
                   /\ UNCHANGED last
    /\ UNCHANGED <<reachable, credsValid, scope, made, now, wait, files>>

\* get_database_stats() called on its own.
GetDatabaseStats ==
    /\ Idle
    /\ CanConnect
    /\ health' = [NoHealth EXCEPT !.pc = "get_database_stats",
                                   !.caller = "get_database_stats",
                                   !.seen = {graph}]
    /\ last' = Call("reading", Result(conn, graph))
    /\ UNCHANGED <<conn, reachable, credsValid, graph, scope, made, now, wait,
                   files>>

\* The record of a get_database_stats() called on its own that ends with
\* result r of its last read: an error goes on to the caller, otherwise
\* the dict is returned.
StatsCall(r, stats) ==
    [Call("get_database_stats",
          [r EXCEPT !.ret = IF r.raised = "none" THEN stats ELSE None]) EXCEPT
        !.trace = health.calls \o r.trace,
        !.mutatedBy = health.mutatedBy \cup r.mutatedBy,
        !.seen = health.seen,
        !.interleaved = health.interleaved]

\* get_database_stats(): node_count = self.connection.get_node_count()
HealthNodeCount ==
    /\ health.pc = "get_database_stats"
    /\ LET r == get_node_count(conn, graph, Probe)
       IN /\ conn' = r.conn
          /\ graph' = r.graph
          /\ IF r.raised # "none"
             THEN /\ last' = IF health.caller = "get_database_stats"
                             THEN StatsCall(r, None)
                             ELSE HealthReturn("get_database_stats", r,
                                               health.report)
                  /\ health' = NoHealth
             ELSE /\ health' = [health EXCEPT
                                   !.pc = "relationship_count",
                                   !.node_count = r.ret,
                                   !.steps = Append(@, "get_database_stats"),
                                   !.calls = @ \o r.trace,
                                   !.mutatedBy = @ \cup r.mutatedBy]
                  /\ UNCHANGED last
    /\ UNCHANGED <<reachable, credsValid, scope, made, now, wait, files>>

\* get_database_stats(): rel_count = self.connection.get_relationship_count()
HealthRelationshipCount ==
    /\ health.pc = "relationship_count"
    /\ LET r == get_relationship_count(conn, graph, Probe)
       IN /\ conn' = r.conn
          /\ graph' = r.graph
          /\ IF r.raised # "none"
             THEN /\ last' = IF health.caller = "get_database_stats"
                             THEN StatsCall(r, None)
                             ELSE [HealthReturn("get_database_stats", r,
                                                health.report) EXCEPT
                                      !.steps = health.steps]
                  /\ health' = NoHealth
             ELSE /\ health' = [health EXCEPT
                                   !.pc = "labels",
                                   !.relationship_count = r.ret,
                                   !.calls = @ \o r.trace,
                                   !.mutatedBy = @ \cup r.mutatedBy]
                  /\ UNCHANGED last
    /\ UNCHANGED <<reachable, credsValid, scope, made, now, wait, files>>

\* get_database_stats(): the labels query and the dict returned, and
\* health["stats"] = ... as the last step of the try block.
HealthLabels ==
    /\ health.pc = "labels"
    /\ \E answer \in LabelsAnswers :
        LET r == execute_query(conn, graph, <<answer>>, Probe)
            stats == StatsRecord(health.node_count,
                                 health.relationship_count,
                                 IF r.rows # <<>> THEN r.rows[1].labels
                                 ELSE <<>>)
            stored == IF r.raised # "none" THEN health
                      ELSE HealthStore("get_database_stats", stats)
        IN /\ conn' = r.conn
           /\ graph' = r.graph
           /\ last' = IF health.caller = "get_database_stats"
                      THEN [StatsCall(r, stats) EXCEPT
                               !.answer = Answered(r, answer)]
                      ELSE [HealthReturn("get_database_stats", r,
                                         stored.report) EXCEPT
                               !.steps = health.steps,
                               !.returned = stored.returned]
           /\ health' = NoHealth
    /\ UNCHANGED <<reachable, credsValid, scope, made, now, wait, files>>

CheckApocAvailable ==
    /\ Idle
    /\ CanConnect
    /\ \E answer \in ApocAnswers :
        LET r == check_apoc_available(conn, graph, Probe, answer)
        IN /\ conn' = r.conn
           /\ graph' = r.graph
           /\ last' = [Call("check_apoc_available", r) EXCEPT
                           !.answer = Answered(r, answer)]
    /\ UNCHANGED <<reachable, credsValid, scope, made, now, wait, health,
                   files>>

\* get_version() called on its own.
GetVersion ==
    /\ Idle
    /\ CanConnect
    /\ \E answer \in VersionAnswers :
        LET r == get_version(conn, graph, Probe, answer)
        IN /\ conn' = r.conn
           /\ graph' = r.graph
           /\ last' = Call("get_version", r)
    /\ UNCHANGED <<reachable, credsValid, scope, made, now, wait, health,
                   files>>

HealthNext ==
    \/ ServerFlip
    \/ CredsFlip
    \/ Close
    \/ ExecuteWrite
    \/ HealthStart
    \/ HealthConnectivity
    \/ HealthApoc
    \/ HealthVersion
    \/ HealthNodeCount
    \/ HealthRelationshipCount
    \/ HealthLabels
    \/ CheckApocAvailable

\* The health checker on a facade that is also written to and closed, and
\* a server that may go away between two steps of a check.
HealthSpec == Init /\ [][HealthNext]_vars

\* ------------------------------------------- every method of the checker
MonitorNext ==
    \/ ServerFlip
    \/ CredsFlip
    \/ Close
    \/ ExecuteWrite
    \/ CheckConnectivity
    \/ CheckApocAvailable
    \/ GetVersion
    \/ GetDatabaseStats
    \/ WaitStart
    \/ WaitIter
    \/ HealthStart
    \/ HealthConnectivity
    \/ HealthApoc
    \/ HealthVersion
    \/ HealthNodeCount
    \/ HealthRelationshipCount
    \/ HealthLabels

\* The six methods of the health checker, called one after another in any
\* order on a facade that is also written to and closed.
MonitorSpec == Init /\ [][MonitorNext]_vars

\* ------------------------------------ the statistics and another client
\* A client on a facade of its own commits a write transaction, or clears
\* the database, between two reads of a get_database_stats() in progress.
OtherWriter ==
    /\ health.caller = "get_database_stats"
    /\ health.pc \in {"relationship_count", "labels"}
    /\ Probe = "ok"
    /\ \E text \in WriteTexts \cup {<<"delete_all">>} :
        LET r == Transaction(text, graph)
        IN /\ r.g # graph
           /\ r.g.nodes <= MaxNodes
           /\ graph' = r.g
           /\ made' = r.g
           /\ health' = [health EXCEPT !.seen = @ \cup {r.g},
                                        !.interleaved = TRUE]
    /\ UNCHANGED <<conn, reachable, credsValid, scope, now, wait, files,
                   last>>

StatsNext ==
    \/ ServerFlip
    \/ CredsFlip
    \/ Close
    \/ ExecuteWrite
    \/ GetDatabaseStats
    \/ HealthNodeCount
    \/ HealthRelationshipCount
    \/ HealthLabels
    \/ OtherWriter

\* get_database_stats() called on its own, on a database that another
\* client may write to between its reads.
StatsSpec == Init /\ [][StatsNext]_vars

\* ------------------------------------------------ the backup helper's calls
\* A file is put at a path of the backup directory, or removed from it.
FileAppears ==
    /\ Idle
    /\ \E path \in Paths \ DOMAIN files : files' = SetKey(files, path, now)
    /\ UNCHANGED <<conn, reachable, credsValid, graph, scope, made, now, wait,
                   health, last>>

FileVanishes ==
    /\ Idle
    /\ \E path \in DOMAIN files : files' = DelKey(files, path)
    /\ UNCHANGED <<conn, reachable, credsValid, graph, scope, made, now, wait,
                   health, last>>

ImportFromGraphml ==
    /\ Idle
    /\ CanConnect
    /\ \E path \in Paths, clear \in BOOLEAN, answer \in ImportAnswers :
        LET r == import_from_graphml(conn, graph, files, path, clear, Probe,
                                     answer)
        IN /\ r.graph.nodes <= MaxNodes
           /\ conn' = r.conn
           /\ graph' = r.graph
           /\ made' = r.graph
           /\ last' = [Call("import_from_graphml", r) EXCEPT
                           !.exists = path \in DOMAIN files,
                           !.clear = clear,
                           !.answer = Answered(r, answer)]
    /\ UNCHANGED <<reachable, credsValid, scope, now, wait, health, files>>

ExportToGraphml ==
    /\ Idle
    /\ CanConnect
    /\ \E filename \in ExportNames, answer \in ExportAnswers :
        LET r == export_to_graphml(conn, graph, filename, Probe, answer)
        IN /\ conn' = r.conn
           /\ graph' = r.graph
           /\ last' = [Call("export_to_graphml", r) EXCEPT
                           !.answer = Answered(r, answer)]
    /\ UNCHANGED <<reachable, credsValid, scope, made, now, wait, health,
                   files>>

BackupNext ==
    \/ ServerFlip
    \/ CredsFlip
    \/ Close
    \/ ExecuteWrite
    \/ FileAppears
    \/ FileVanishes
    \/ ImportFromGraphml
    \/ ExportToGraphml

\* The backup helper on a facade that is also written to and closed.
BackupSpec == Init /\ [][BackupNext]_vars

\* --------------------------------------------------- the backup directory
\* The clock goes on.
Tick ==
    /\ Idle
    /\ now < MaxMtime
    /\ now' = now + 1
    /\ UNCHANGED <<conn, reachable, credsValid, graph, scope, made, wait,
                   health, files, last>>

\* An entry of the backup directory is created or written again.
EntryWritten ==
    /\ Idle
    /\ \E name \in DirNames :
        /\ files' = SetKey(files, name, now)
        /\ files' # files
    /\ UNCHANGED <<conn, reachable, credsValid, graph, scope, made, now, wait,
                   health, last>>

ListBackups ==
    /\ Idle
    /\ \E globbed \in GlobOrders(files) :
        last' = [Call("list_backups", Result(conn, graph)) EXCEPT
                    !.ret = list_backups(files, globbed), !.dir = files]
    /\ UNCHANGED <<conn, reachable, credsValid, graph, scope, made, now, wait,
                   health, files>>

GetLatestBackup ==
    /\ Idle
    /\ \E globbed \in GlobOrders(files) :
        last' = [Call("get_latest_backup", Result(conn, graph)) EXCEPT
                    !.ret = get_latest_backup(files, globbed), !.dir = files]
    /\ UNCHANGED <<conn, reachable, credsValid, graph, scope, made, now, wait,
                   health, files>>

ListNext ==
    \/ Tick
    \/ EntryWritten
    \/ FileVanishes
    \/ ListBackups
    \/ GetLatestBackup

\* The listing reads the directory only: the server, which it never talks
\* to, is left up.
InitList == Init /\ reachable /\ credsValid

\* The backup directory as entries come, are touched and go, and its
\* listing.
ListSpec == InitList /\ [][ListNext]_vars

\* ---------------------------------------------------------- properties
Ok(l) == l.outcome = "ok"

\* The error the driver raises when a statement is run while the server
\* answers p, and the statement is or is not one the server rejects.
DriverError(p, bad) ==
    IF p # "ok" THEN p ELSE IF bad THEN CypherError ELSE "none"

\* Calls that reach the handle through the driver property.
ThroughDriver ==
    {"driver", "execute_query", "execute_write", "get_node_count",
     "get_relationship_count", "clear_database", "check_connectivity"}

\* The handle a call obtained from the driver property.
Obtained(l) == IF l.op = "driver" THEN l.ret ELSE l.used

\* C1: in every reachable state the stored handle is absent or is a handle
\* whose verify_connectivity() succeeded; a connect() that fails leaves no
\* unverified handle stored.
C1_HandleAbsentOrVerified ==
    conn._driver = None \/ conn._driver \in conn.verified

\* C2: close() never raises and leaves the handle absent; the driver's
\* close is called exactly by a close() that found a handle, so two calls
\* in succession call it at most once and the second finds no handle.
C2_CloseIdempotent ==
    last.op = "close" =>
        /\ Ok(last)
        /\ conn._driver = None
        /\ last.closes = (IF last.pre # None THEN 1 ELSE 0)
        /\ last.after = "close" =>
              /\ last.pre = None
              /\ last.afterCloses + last.closes <= 1

\* Two close() calls in succession, the first of which closed a handle.
C2_Witness ==
    /\ last.op = "close"
    /\ last.after = "close"
    /\ last.afterCloses = 1
    /\ conn._driver = None

\* C3: a call through the driver property connects exactly once when no
\* handle is stored and then works on the handle connect() stored; with a
\* handle stored it does not connect and gets that handle; so a query right
\* after close(), with the server up and the credentials valid, succeeds
\* and leaves a handle stored.
C3_LazyReconnect ==
    last.op \in ThroughDriver =>
        /\ last.pre = None =>
              /\ last.connects = 1
              /\ last.failedAt # "connect" =>
                    /\ Obtained(last) = conn._driver
                    /\ Obtained(last) \in conn.verified
        /\ last.pre # None =>
              /\ last.connects = 0
              /\ Obtained(last) = last.pre
              /\ conn._driver = last.pre
        /\ (last.op = "execute_query" /\ last.after = "close"
                /\ last.probe = "ok" /\ ~last.bad) =>
              /\ Ok(last)
              /\ last.connects = 1
              /\ conn._driver # None

\* A query right after a close() that closed a handle reconnected and
\* succeeded.
C3_Witness ==
    /\ last.op = "execute_query"
    /\ last.after = "close"
    /\ last.afterCloses = 1
    /\ Ok(last)
    /\ last.connects = 1
    /\ conn._driver # None

\* C4: __enter__ connects and the block runs with a handle stored; however
\* the block ends, __exit__ closes the handle created at entry, leaves no
\* handle stored, and does not suppress the exception the body raised.
C4_ScopeClosesEntryHandle ==
    /\ (last.op = "__enter__" /\ Ok(last)) =>
          /\ last.connects = 1
          /\ conn._driver # None
          /\ scope = conn._driver
    /\ last.op = "__exit__" =>
          /\ last.entered \notin conn.open
          /\ conn._driver = None
          /\ last.outcome = (IF last.exc = "none" THEN "ok" ELSE last.exc)

\* C5: at most one handle created by the facade is open at any time.
C5_AtMostOneOpenHandle ==
    Cardinality(conn.open) <= 1

\* C6: connect() verifies once and raises what the verification raised:
\* ServiceUnavailable when the server is unreachable, AuthError when it
\* rejects the credentials; it returns a handle, the one it created and
\* verified, only when the verification succeeded.
C6_ConnectRaisesOrReturns ==
    last.op = "connect" =>
        /\ last.connects = 1
        /\ last.verifies = 1
        /\ last.probe = ServiceUnavailable => last.outcome = ServiceUnavailable
        /\ last.probe = AuthError => last.outcome = AuthError
        /\ last.probe = "ok" =>
              /\ Ok(last)
              /\ last.ret # None
              /\ last.ret = conn._driver
              /\ last.ret \in conn.verified
        /\ ~Ok(last) => last.ret = None

\* connect() called with a handle already stored and the credentials
\* rejected.
C6_Witness ==
    /\ last.op = "connect"
    /\ last.pre # None
    /\ last.outcome = AuthError

\* C7: check_connectivity() returns True when the verification succeeds,
\* False exactly when it fails with ServiceUnavailable (in the lazy connect
\* or on the stored handle), and raises every other error; wait_for_ready
\* raises that error too instead of returning False.
C7_OnlyUnreachableIsFalse ==
    /\ last.op = "check_connectivity" =>
          /\ last.probe = "ok" => (Ok(last) /\ last.truth)
          /\ last.probe = ServiceUnavailable => (Ok(last) /\ ~last.truth)
          /\ last.probe = AuthError => last.outcome = AuthError
    /\ (last.op = "wait_for_ready" /\ ~last.timedOut) =>
          /\ last.probe = "ok" => (Ok(last) /\ last.truth)
          /\ last.probe = AuthError => last.outcome = AuthError
          /\ last.probe # ServiceUnavailable

\* wait_for_ready slept after an unreachable check and was then ended by an
\* AuthError.
C7_Witness ==
    /\ last.op = "wait_for_ready"
    /\ last.sleeps >= 1
    /\ last.outcome = AuthError

C9_WriteAllOrNothing ==
    last.op = "execute_write" =>
        /\ ~Ok(last) => graph = last.g0
        /\ Ok(last) =>
              /\ ~last.bad
              /\ graph.nodes = last.g0.nodes + last.dn
              /\ graph.rels = last.g0.rels + last.dr

\* An execute_write failed on a text that also creates nodes.
C9_Witness ==
    /\ last.op = "execute_write"
    /\ last.outcome = CypherError
    /\ last.dn > 0
    /\ graph = last.g0

\* C10: on a graph that was empty and that only execute_write has written,
\* get_node_count() and get_relationship_count() return the numbers of
\* nodes and relationships created.
C10_CountsRoundTrip ==
    /\ (last.op = "get_node_count" /\ Ok(last)) => last.ret = made.nodes
    /\ (last.op = "get_relationship_count" /\ Ok(last)) => last.ret = made.rels

\* get_relationship_count() returned 1 after two nodes and a relationship
\* had been created.
C10_Witness ==
    /\ last.op = "get_relationship_count"
    /\ Ok(last)
    /\ last.ret = 1
    /\ made = [nodes |-> 2, rels |-> 1]

\* C11: a clear_database() that returns normally has issued its deletion as
\* one execute_write call and leaves the graph empty, whatever it held
\* before; a get_node_count() or get_relationship_count() that follows it
\* directly and returns, returns 0.
C11_ClearLeavesNothing ==
    /\ (last.op = "clear_database" /\ Ok(last)) =>
            /\ graph = EmptyGraph
            /\ last.trace = <<"clear_database", "execute_write">>
            /\ (last.g0 # EmptyGraph => last.mutatedBy = {"execute_write"})
    /\ (last.op \in {"get_node_count", "get_relationship_count"}
            /\ last.after = "cleared" /\ Ok(last)) => last.ret = 0

\* A count returned right after a clear_database() that deleted something.
C11_Witness ==
    /\ last.op \in {"get_node_count", "get_relationship_count"}
    /\ last.after = "cleared"
    /\ last.afterWrote
    /\ Ok(last)
    /\ last.ret = 0

\* C12: execute_write is the only operation through which the library
\* changes the graph: no statement a library method issues through
\* execute_query changes it, and a library method that changed the graph
\* did so through execute_write.  (execute_query called directly runs the
\* caller's statement, not the library's.)
C12_OnlyExecuteWriteMutates ==
    last.op # "execute_query" =>
        /\ "execute_query" \notin last.mutatedBy
        /\ (graph # last.g0 => last.mutatedBy = {"execute_write"})

\* The order full_health_check() takes its steps in.
FullOrder ==
    <<"check_connectivity", "check_apoc_available", "get_version",
      "get_database_stats">>

IsPrefix(s, t) == Len(s) <= Len(t) /\ s = SubSeq(t, 1, Len(s))

\* Step `step` was called in the full_health_check() recorded in l.
Issued(l, step) == \E i \in 1..Len(l.steps) : l.steps[i] = step

\* C13: full_health_check() never raises, and when the connectivity check
\* fails (returns false or raises) the report has connected = false,
\* apoc_available = false, version = "unknown" and stats = {}.
C13_FullCheckNeverRaises ==
    last.op = "full_health_check" =>
        /\ Ok(last)
        /\ (~("check_connectivity" \in DOMAIN last.returned
                /\ last.returned["check_connectivity"])) =>
              /\ last.report.connected = FALSE
              /\ last.report.apoc_available = FALSE
              /\ last.report.version = "unknown"
              /\ last.report.stats = EmptyDict

\* A check whose connectivity step raised an authentication error.
C13_Witness ==
    /\ last.op = "full_health_check"
    /\ last.raisedIn = "check_connectivity"
    /\ last.exc = AuthError
    /\ Ok(last)
    /\ last.report.connected = FALSE

\* C14 as stated: the steps run in the order connectivity, plugin, version,
\* stats; each of the plugin, version and stats steps is taken if and only
\* if connectivity returned true; and when it did not, no query is issued.
C14_QueriesIffConnected ==
    last.op = "full_health_check" =>
        /\ IsPrefix(last.steps, FullOrder)
        /\ \A step \in {"check_apoc_available", "get_version",
                         "get_database_stats"} :
              Issued(last, step) <=> last.report.connected
        /\ (~last.report.connected => last.trace = <<>>)

\* C14, amended: the steps run in the order connectivity, plugin, version,
\* stats, during the call and at its end; the plugin and version steps are
\* taken if and only if connectivity returned true, the stats step if and
\* only if connectivity returned true and the version step did not raise;
\* when connectivity returned false or raised, no query is issued.
C14_StepsInOrder ==
    /\ IsPrefix(health.steps, FullOrder)
    /\ last.op = "full_health_check" =>
        /\ IsPrefix(last.steps, FullOrder)
        /\ Issued(last, "check_connectivity")
        /\ Issued(last, "check_apoc_available") <=> last.report.connected
        /\ Issued(last, "get_version") <=> last.report.connected
        /\ Issued(last, "get_database_stats") <=>
              (last.report.connected /\ last.raisedIn # "get_version")
        /\ (~last.report.connected => last.trace = <<>>)

\* A check that took all four steps and issued their five queries.
C14_Witness ==
    /\ last.op = "full_health_check"
    /\ last.steps = FullOrder
    /\ last.raisedIn = "none"
    /\ Len(last.trace) = 5

\* C15: when a step raises, the report returned holds the values of the
\* steps that returned, the defaults for the step that raised and the ones
\* after it, and the error under "error"; the report has an "error" key if
\* and only if a step raised.
C15_PartialReport ==
    (last.op = "full_health_check" /\ Ok(last)) =>
        /\ ("error" \in DOMAIN last.report) <=> (last.raisedIn # "none")
        /\ (last.raisedIn # "none") =>
              /\ last.report["error"] = last.exc
              /\ last.raisedIn \notin DOMAIN last.returned
        /\ \A i \in 1..Len(FullOrder) :
              last.report[Field(FullOrder[i])] =
                 IF FullOrder[i] \in DOMAIN last.returned
                 THEN last.returned[FullOrder[i]]
                 ELSE DefaultReport[Field(FullOrder[i])]
        /\ \A i \in 1..Len(FullOrder) :
              FullOrder[i] \in DOMAIN last.returned =>
                 /\ Issued(last, FullOrder[i])
                 /\ last.raisedIn # FullOrder[i]

\* A check whose stats step raised after the version step had returned a
\* version.
C15_Witness ==
    /\ last.op = "full_health_check"
    /\ last.raisedIn = "get_database_stats"
    /\ last.report.connected
    /\ last.report.version # "unknown"
    /\ last.report.stats = EmptyDict
    /\ "error" \in DOMAIN last.report

\* C16: against a server that stays unreachable, wait_for_ready(T, I)
\* returns for every T >= 0 and I > 0, returns false without raising, and
\* does not return before T seconds have elapsed; it sleeps I after every
\* check.
C16_UnreachableTimesOut ==
    /\ [](last.op = "wait_for_ready" =>
            /\ Ok(last)
            /\ ~last.truth
            /\ last.timedOut
            /\ last.elapsed >= last.timeout
            /\ last.elapsed = last.sleeps * last.interval
            /\ last.checks = last.sleeps)
    /\ (wait.pc = "loop") ~> (wait.pc = "idle" /\ last.op = "wait_for_ready")

\* A wait on an unreachable server that slept more than once before it
\* gave up.
C16_Witness ==
    /\ last.op = "wait_for_ready"
    /\ ~reachable
    /\ last.timedOut
    /\ ~last.truth
    /\ last.sleeps >= 2

\* C17: wait_for_ready against a server that is reachable when the loop
\* is first evaluated returns true without having slept, for every
\* timeout >= 0 and every interval.
C17_ImmediatelyReachable ==
    (last.op = "wait_for_ready" /\ last.sleeps = 0 /\ last.probe = "ok") =>
        (Ok(last) /\ last.truth)

\* C18: the time between the start of wait_for_ready(T, I) and its return
\* never exceeds T.
C18_AtMostTimeout ==
    last.op = "wait_for_ready" => last.elapsed <= last.timeout

\* Number of calls of method m in a trace.
RECURSIVE CountCalls(_, _)
CountCalls(trace, m) ==
    IF trace = <<>> THEN 0
    ELSE CountCalls(Tail(trace), m) + (IF Head(trace) = m THEN 1 ELSE 0)

\* C19: import_from_graphml on a path that does not exist raises
\* FileNotFoundError before it touches the database, whether or not the
\* clear flag is set: it calls neither execute_query nor clear_database,
\* and leaves the graph and the stored handle as they were.
C19_MissingFileTouchesNothing ==
    (last.op = "import_from_graphml" /\ ~last.exists) =>
        /\ last.outcome = FileNotFoundError
        /\ last.trace = <<>>
        /\ graph = last.g0
        /\ last.mutatedBy = {}
        /\ conn._driver = last.pre
        /\ last.connects = 0
        /\ last.closes = 0
        /\ last.verifies = 0

\* An import of a missing path with the clear flag set, on a graph that
\* holds data.
C19_Witness ==
    /\ last.op = "import_from_graphml"
    /\ ~last.exists
    /\ last.clear
    /\ last.outcome = FileNotFoundError
    /\ graph # EmptyGraph

\* C20 as stated: on an existing path clear_database() is called exactly
\* once, before the import query, when the flag is set and never when it
\* is not; in both cases exactly one import query is issued.
C20_OneImportQuery ==
    (last.op = "import_from_graphml" /\ last.exists) =>
        /\ CountCalls(last.trace, "clear_database") =
              (IF last.clear THEN 1 ELSE 0)
        /\ CountCalls(last.trace, "execute_query") = 1
        /\ last.clear => last.trace[1] = "clear_database"

\* C20, amended: on an existing path clear_database() is called exactly
\* once, before the import query, when the flag is set and never when it
\* is not; exactly one import query is issued when the flag is not set or
\* clear_database() returned, and none when clear_database() raised.
C20_ClearThenImport ==
    (last.op = "import_from_graphml" /\ last.exists) =>
        /\ last.failedAt = "clear" => (last.clear /\ ~Ok(last))
        /\ last.trace =
              IF ~last.clear THEN <<"execute_query">>
              ELSE IF last.failedAt = "clear"
              THEN <<"clear_database", "execute_write">>
              ELSE <<"clear_database", "execute_write", "execute_query">>

\* An import that cleared a graph holding data and then ran its query.
C20_Witness ==
    /\ last.op = "import_from_graphml"
    /\ last.exists
    /\ last.clear
    /\ Ok(last)
    /\ last.g0 # EmptyGraph
    /\ last.trace = <<"clear_database", "execute_write", "execute_query">>

\* C21: an import_from_graphml that returns, returns the record {nodes,
\* relationships, time_ms} holding the nodes, relationships and time
\* columns of the first row of its query, and the all-zero record when the
\* query yields no row; a query without rows does not make it fail.
C21_ImportStatsRecord ==
    (last.op = "import_from_graphml" /\ last.exists) =>
        /\ Ok(last) =>
              last.ret =
                 CASE last.answer = "import_node" ->
                        [nodes |-> 1, relationships |-> 0, time_ms |-> 1]
                   [] last.answer = "import_pair" ->
                        [nodes |-> 2, relationships |-> 1, time_ms |-> 1]
                   [] last.answer = "norow" ->
                        [nodes |-> 0, relationships |-> 0, time_ms |-> 0]
        /\ (last.answer = "norow" /\ last.probe = "ok") => Ok(last)
        /\ ~Ok(last) => last.ret = None

\* An import whose query yielded no row and that returned the zeros.
C21_Witness ==
    /\ last.op = "import_from_graphml"
    /\ last.exists
    /\ last.answer = "norow"
    /\ Ok(last)
    /\ last.ret = [nodes |-> 0, relationships |-> 0, time_ms |-> 0]

\* The query of the backup helper's call recorded in l raised.
QueryRaised(l) ==
    /\ l.op \in {"export_to_graphml", "import_from_graphml"}
    /\ CountCalls(l.trace, "execute_query") > 0
    /\ (l.probe # "ok" \/ l.answer = "bad")

\* C22: when the query issued by export_to_graphml or import_from_graphml
\* raises, the call raises that same error, returns neither a path nor a
\* stats record, and issues no query after the failed one.
C22_BackupReraises ==
    QueryRaised(last) =>
        /\ last.outcome = DriverError(last.probe, last.answer = "bad")
        /\ ~Ok(last)
        /\ last.failedAt \in {"export", "import"}
        /\ last.ret = None
        /\ CountCalls(last.trace, "execute_query") = 1
        /\ last.trace[Len(last.trace)] = "execute_query"

\* An export whose statement the server rejected.
C22_Witness ==
    /\ last.op = "export_to_graphml"
    /\ last.answer = "bad"
    /\ last.outcome = CypherError
    /\ last.ret = None

\* The entries of directory d that list_backups() is to return.
Backups(d) == {n \in DOMAIN d : Matches(n)}

\* C23: list_backups() returns the entries of the backup directory that
\* match *.graphml*, each once, in ascending order of modification time;
\* get_latest_backup() returns a matching entry whose modification time is
\* not less than any other's, and None when no entry matches.
C23_ListAscending ==
    /\ last.op = "list_backups" =>
          /\ {last.ret[i] : i \in 1..Len(last.ret)} = Backups(last.dir)
          /\ Len(last.ret) = Cardinality(Backups(last.dir))
          /\ \A i, j \in 1..Len(last.ret) :
                i < j => last.dir[last.ret[i]] <= last.dir[last.ret[j]]
    /\ last.op = "get_latest_backup" =>
          IF Backups(last.dir) = {} THEN last.ret = None
          ELSE /\ last.ret \in Backups(last.dir)
               /\ \A n \in Backups(last.dir) :
                     last.dir[n] <= last.dir[last.ret]

\* A listing of three backups, not all written at the same time, from a
\* directory that also holds an entry that does not match.
C23_Witness ==
    /\ last.op = "list_backups"
    /\ Len(last.ret) = 3
    /\ <<"notes", ".txt">> \in DOMAIN last.dir
    /\ last.dir[last.ret[1]] < last.dir[last.ret[3]]

\* C24: check_apoc_available() never raises; it returns true exactly when
\* its query returns a row whose count is positive, and false when the
\* query returns no row or a count of 0, is rejected, or cannot be run
\* (the server is unreachable or refuses the credentials, on the stored
\* handle or in the lazy connect).
C24_ApocNeverRaises ==
    last.op = "check_apoc_available" =>
        /\ Ok(last)
        /\ last.truth <=> (last.probe = "ok" /\ last.answer = "apoc_count1")
        /\ last.answer \in {"apoc_count0", "norow", "bad", "none"} =>
              ~last.truth
        /\ last.probe # "ok" => ~last.truth

\* A check on a facade without a handle whose lazy connect failed.
C24_Witness ==
    /\ last.op = "check_apoc_available"
    /\ last.pre = None
    /\ last.failedAt = "connect"
    /\ Ok(last)
    /\ ~last.truth

\* A check that got a row counting no procedure.
C24_WitnessZero ==
    /\ last.op = "check_apoc_available"
    /\ last.answer = "apoc_count0"
    /\ ~last.truth

\* The methods of the health checker, and the names their calls are
\* recorded under while they run.
MonitorOps ==
    {"check_connectivity", "check_apoc_available", "get_version",
     "get_database_stats", "wait_for_ready", "full_health_check"}

\* A step of a method of the health checker: one taken while
\* wait_for_ready, full_health_check or get_database_stats runs, one that
\* starts them, or one after which the last call made is a method of the
\* checker (the call itself, or the server changing after it).
MonitorStep ==
    \/ health.pc # "idle" \/ health'.pc # "idle"
    \/ wait.pc # "idle" \/ wait'.pc # "idle"
    \/ last'.op \in MonitorOps

NoWriteIn(trace) ==
    /\ CountCalls(trace, "execute_write") = 0
    /\ CountCalls(trace, "clear_database") = 0

\* C25: no method of the health checker mutates: every step of
\* check_connectivity, check_apoc_available, get_version,
\* get_database_stats, wait_for_ready and full_health_check leaves the
\* graph as it was, and the facade methods they call are never
\* execute_write or clear_database, whatever sequence they are called in.
C25_MonitorNeverMutates ==
    [][MonitorStep =>
          /\ graph' = graph
          /\ NoWriteIn(health'.calls) /\ health'.mutatedBy = {}
          /\ NoWriteIn(wait'.calls) /\ wait'.mutatedBy = {}
          /\ (last'.op \in MonitorOps =>
                 NoWriteIn(last'.trace) /\ last'.mutatedBy = {})]_vars

\* A full check that ran all its reads on a graph that is not empty, after
\* the statistics had been read on their own.
C25_Witness ==
    /\ last.op = "full_health_check"
    /\ Ok(last)
    /\ CountCalls(last.trace, "execute_query") = 5
    /\ graph # EmptyGraph

\* C26: wait_for_ready stops and reports failure only at an iteration
\* where the time elapsed since it began already exceeds the timeout; while
\* the elapsed time does not exceed the timeout (it may equal it, as at the
\* first iteration of a call with timeout 0) the connectivity check is
\* made.  The loop condition is elapsed < timeout, so the call gives up as
\* soon as the elapsed time equals the timeout.
C26_StopsOnlyWhenExceeded ==
    (last.op = "wait_for_ready" /\ last.timedOut) =>
        last.elapsed > last.timeout

\* C27: in wait_for_ready every connectivity check that returned false is
\* followed by exactly one sleep of the interval the call was given, and a
\* check that returned true (or raised) by none: while the loop runs and
\* when it times out there are as many sleeps as checks, when it ends on a
\* check there is one check more, and the time slept is the number of
\* sleeps times the interval.  The call returns true exactly when the last
\* check it made returned true, and that check is then its last.
C27_SleepAfterEachFalseCheck ==
    /\ wait.pc = "loop" =>
          /\ wait.checks = wait.sleeps
          /\ now - wait.start_time = wait.sleeps * wait.interval
          /\ wait.lastCheck = IF wait.checks = 0 THEN "none" ELSE "false"
    /\ last.op = "wait_for_ready" =>
          /\ last.elapsed = last.sleeps * last.interval
          /\ last.timedOut => last.checks = last.sleeps
          /\ ~last.timedOut => last.checks = last.sleeps + 1
          /\ Ok(last) => (last.truth <=> last.lastCheck = "true")
          /\ last.lastCheck = "true" => ~last.timedOut /\ Ok(last)

\* A call that slept once after a failed check and returned true on its
\* second.
C27_Witness ==
    /\ last.op = "wait_for_ready"
    /\ last.truth
    /\ last.sleeps = 1
    /\ last.checks = 2
    /\ last.elapsed = last.interval

\* The statistics of the database in state g, the labels query answered
\* as `answer`.
StatsOf(g, answer) ==
    [node_count |-> g.nodes, relationship_count |-> g.rels,
     labels |-> IF answer = "labels" THEN Labels(g) ELSE <<>>]

\* C28: get_database_stats() makes three reads through execute_query, one
\* after the other and each in a session of its own.  When no other
\* client has written between them the record returned is the statistics
\* of the database as it is; when one has, each count is one the database
\* had at some time during the call, but the record may be that of no
\* single state (C28_Witness).
C28_StatsOfCurrentState ==
    (last.op = "get_database_stats" /\ Ok(last)) =>
        /\ last.trace = <<"execute_query", "execute_query", "execute_query">>
        /\ ~last.interleaved =>
              /\ last.ret = StatsOf(graph, last.answer)
              /\ last.seen = {graph}
        /\ \E g \in last.seen : last.ret.node_count = g.nodes
        /\ \E g \in last.seen : last.ret.relationship_count = g.rels

\* A record returned after another client wrote between the reads, that
\* is the statistics of none of the states the database was in during
\* the call.
C28_Witness ==
    /\ last.op = "get_database_stats"
    /\ Ok(last)
    /\ last.interleaved
    /\ last.answer = "labels"
    /\ \A g \in last.seen : last.ret # StatsOf(g, "labels")

\* C29: import_from_graphml with the clear flag is not atomic:
\* clear_database() has committed in a write transaction of its own before
\* the import statement is issued, so when that statement fails its error
\* is raised to the caller and the database stays empty; what it held
\* before the call is not put back.
C29_ClearIsNotUndone ==
    (last.op = "import_from_graphml" /\ last.exists /\ last.clear
        /\ last.failedAt = "import") =>
        /\ ~Ok(last)
        /\ last.outcome = DriverError(last.probe, last.answer = "bad")
        /\ last.trace = <<"clear_database", "execute_write", "execute_query">>
        /\ graph = EmptyGraph
        /\ last.g0 # EmptyGraph => last.mutatedBy = {"execute_write"}

\* An import that cleared a database holding data and whose import
\* statement the server then rejected.
C29_Witness ==
    /\ last.op = "import_from_graphml"
    /\ last.clear
    /\ last.failedAt = "import"
    /\ last.outcome = CypherError
    /\ last.g0 # EmptyGraph
    /\ graph = EmptyGraph
====
